---- MODULE Spec2Model ----
(***************************************************************************)
(* Model of the two applications of the repository:                        *)
(*   A. "AgenticRAG with CrewAI/agentic_rag.py": the document chat         *)
(*      (upload, retrieval, answering step, transcript);                   *)
(*   B. "MCP/mcp_server.py" and "MCP/mcp_client_streamlitUI.py": the       *)
(*      resume matcher (four tools and the client that calls them).        *)
(*                                                                         *)
(* A text is a sequence of lexemes.  A lexeme is one character (" ", "a",  *)
(* "1", "{", ...), a named character (NL: line feed, FF: form feed, Q: the *)
(* double quote, BS: the backslash) or a literal the code treats as a unit *)
(* (the markers <think> and </think>, a JSON member name, a fixed message).*)
(***************************************************************************)
EXTENDS Integers, Sequences, FiniteSets

(***************************************************************************)
(* Bounds of the model.                                                    *)
(***************************************************************************)
\* longest model output given to a tool of the Tool Service alone
MaxOutLen == 3
\* longest raw answer given to the reasoning-segment functions
MaxAnsLen == 4
\* longest context given to the Answering Step alone
MaxCtxLen == 2
\* longest pasted text and model output in a run of the matcher pipeline
MaxPipeLen == 1
\* chat turns of one session
MaxTurns == 3

(***************************************************************************)
(* Texts.                                                                  *)
(***************************************************************************)
NL == "NL"
FF == "FF"
Q == "Q"
BS == "BS"
TO == "<think>"
TC == "</think>"

\* what Python's str.strip() removes (a subset: space, line feed, form feed)
PyWhitespace == {" ", NL, FF}
\* what the JSON grammar skips between tokens (form feed is not among them)
JsonWhitespace == {" ", NL}
\* characters a JSON string literal may not hold unescaped
ControlChars == {NL, FF}

Texts(alphabet, n) == UNION {[1..k -> alphabet] : k \in 0..n}

MinOf(S) == CHOOSE x \in S : \A y \in S : x <= y
MaxOf(S) == CHOOSE x \in S : \A y \in S : x >= y

\* str.strip(): the text without its leading and trailing whitespace
Strip(s) ==
    LET keep == {i \in 1..Len(s) : s[i] \notin PyWhitespace}
    IN  IF keep = {} THEN <<>> ELSE SubSeq(s, MinOf(keep), MaxOf(keep))

RECURSIVE Join(_, _)
\* sep.join(parts)
Join(parts, sep) ==
    IF parts = <<>> THEN <<>>
    ELSE IF Len(parts) = 1 THEN parts[1]
    ELSE parts[1] \o sep \o Join(Tail(parts), sep)

(***************************************************************************)
(* JSON values, json.loads and the encoding of a tool's result.            *)
(* A decoded value is a record [t, n, s, m]: t its type ("num", "str",     *)
(* "obj"), n the number, s the string, m the members of the object in      *)
(* insertion order.  JError stands for json.JSONDecodeError.               *)
(***************************************************************************)
JNum(n) == [t |-> "num", n |-> n, s |-> <<>>, m |-> <<>>]
JStr(s) == [t |-> "str", n |-> 0, s |-> s, m |-> <<>>]
JObj(m) == [t |-> "obj", n |-> 0, s |-> <<>>, m |-> m]
JError == [t |-> "error", n |-> 0, s |-> <<>>, m |-> <<>>]

DigitChars == <<"0", "1", "2", "3", "4", "5", "6", "7", "8", "9">>
Digits == {DigitChars[i] : i \in 1..10}
DigitValue(c) == (CHOOSE i \in 1..10 : DigitChars[i] = c) - 1

\* d[k] = v on a dict kept as a member sequence
PutMember(m, k, v) ==
    IF \E i \in 1..Len(m) : m[i].k = k
    THEN [i \in 1..Len(m) |-> IF m[i].k = k THEN [k |-> k, v |-> v] ELSE m[i]]
    ELSE Append(m, [k |-> k, v |-> v])

HasKey(val, k) == val.t = "obj" /\ \E i \in 1..Len(val.m) : val.m[i].k = k
\* val[k] for a decoded object that has the key
GetKey(val, k) == val.m[CHOOSE i \in 1..Len(val.m) : val.m[i].k = k].v

ParseFail == [ok |-> FALSE, val |-> JError, pos |-> 0]
ParseOk(v, p) == [ok |-> TRUE, val |-> v, pos |-> p]

SkipWs(s, i) ==
    LET rest == {j \in i..Len(s) : s[j] \notin JsonWhitespace}
    IN  IF rest = {} THEN Len(s) + 1 ELSE MinOf(rest)

RECURSIVE ScanString(_, _, _)
\* the string literal whose opening quote is before position j
ScanString(s, j, acc) ==
    IF j > Len(s) THEN ParseFail
    ELSE IF s[j] = Q THEN ParseOk(JStr(acc), j + 1)
    ELSE IF s[j] = BS THEN
        IF j + 1 > Len(s) THEN ParseFail
        ELSE IF s[j + 1] \in {Q, BS} THEN ScanString(s, j + 2, Append(acc, s[j + 1]))
        ELSE IF s[j + 1] = "f" THEN ScanString(s, j + 2, Append(acc, FF))
        ELSE IF s[j + 1] = "n" THEN ScanString(s, j + 2, Append(acc, NL))
        ELSE ParseFail
    ELSE IF s[j] \in ControlChars THEN ParseFail
    ELSE ScanString(s, j + 1, Append(acc, s[j]))

RECURSIVE ScanNumber(_, _, _)
ScanNumber(s, j, acc) ==
    IF j <= Len(s) /\ s[j] \in Digits
    THEN ScanNumber(s, j + 1, 10 * acc + DigitValue(s[j]))
    ELSE ParseOk(JNum(acc), j)

RECURSIVE ParseValue(_, _)
RECURSIVE ParseMembers(_, _, _)
ParseValue(s, i) ==
    IF i > Len(s) THEN ParseFail
    ELSE IF s[i] = Q THEN ScanString(s, i + 1, <<>>)
    ELSE IF s[i] = "0" THEN ParseOk(JNum(0), i + 1)
    ELSE IF s[i] \in Digits THEN ScanNumber(s, i, 0)
    ELSE IF s[i] = "{" THEN
        LET j == SkipWs(s, i + 1)
        IN  IF j > Len(s) THEN ParseFail
            ELSE IF s[j] = "}" THEN ParseOk(JObj(<<>>), j + 1)
            ELSE ParseMembers(s, j, <<>>)
    ELSE ParseFail

\* the members of an object from the key at position j on, up to its "}"
ParseMembers(s, j, acc) ==
    IF j > Len(s) \/ s[j] # Q THEN ParseFail
    ELSE
        LET key == ScanString(s, j + 1, <<>>)
        IN  IF ~key.ok THEN ParseFail
            ELSE
                LET c == SkipWs(s, key.pos)
                IN  IF c > Len(s) \/ s[c] # ":" THEN ParseFail
                    ELSE
                        LET v == ParseValue(s, SkipWs(s, c + 1))
                        IN  IF ~v.ok THEN ParseFail
                            ELSE
                                LET d == SkipWs(s, v.pos)
                                    m == PutMember(acc, key.val.s, v.val)
                                IN  IF d > Len(s) THEN ParseFail
                                    ELSE IF s[d] = "}" THEN ParseOk(JObj(m), d + 1)
                                    ELSE IF s[d] = "," THEN ParseMembers(s, SkipWs(s, d + 1), m)
                                    ELSE ParseFail

\* json.loads(s): the decoded value, or JError when it raises JSONDecodeError
JsonLoads(s) ==
    LET r == ParseValue(s, SkipWs(s, 1))
    IN  IF ~r.ok THEN JError
        ELSE IF SkipWs(s, r.pos) <= Len(s) THEN JError
        ELSE r.val

RECURSIVE NatToText(_)
NatToText(n) ==
    IF n < 10 THEN <<DigitChars[n + 1]>>
    ELSE Append(NatToText(n \div 10), DigitChars[(n % 10) + 1])

RECURSIVE EscapeText(_)
EscapeText(s) ==
    IF s = <<>> THEN <<>>
    ELSE (IF Head(s) \in {Q, BS} THEN <<BS, Head(s)>>
          ELSE IF Head(s) = FF THEN <<BS, "f">>
          ELSE IF Head(s) = NL THEN <<BS, "n">>
          ELSE <<Head(s)>>) \o EscapeText(Tail(s))

RECURSIVE Dumps(_)
RECURSIVE DumpMembers(_)
\* the JSON text of a value: what a tool's returned dict travels as
Dumps(v) ==
    IF v.t = "num" THEN NatToText(v.n)
    ELSE IF v.t = "str" THEN <<Q>> \o EscapeText(v.s) \o <<Q>>
    ELSE <<"{">> \o DumpMembers(v.m) \o <<"}">>

DumpMembers(m) ==
    IF m = <<>> THEN <<>>
    ELSE <<Q>> \o EscapeText(m[1].k) \o <<Q, ":", " ">> \o Dumps(m[1].v)
         \o (IF Len(m) = 1 THEN <<>> ELSE <<",", " ">> \o DumpMembers(Tail(m)))

(***************************************************************************)
(* State.                                                                  *)
(***************************************************************************)
VARIABLES
    \* Tool Service alone: one invocation of one tool
    tool_name, tool_args, tool_outcome, tool_ret,
    \* Tool Client: widget values, position of the script run, its locals
    resume_text, jd_text, pc,
    parsed_resume_content, parsed_jd_content, match_result, gap_summary,
    \* remote calls issued and not yet returned, and the reply awaited
    inflight, reply,
    \* history: calls of the run in issue order; tool invocations served
    callLog, invocations,
    \* what the run has rendered, and what ended it early
    shown, abortCause,
    \* Document chat: the uploader's file, temp.pdf, the vector index of the
    \* latest script run, the session state, the position of the chat turn
    uploaded_file, temp_pdf, vectorstore, session_state, chat_pc,
    \* history: the turn being (or last) handled; the documents uploaded
    turn, uploadLog,
    \* Answering Step alone: one execute_task and the handling of its answer
    ans_context, ans_outcome, ans_ret, ans_view

toolVars == <<tool_name, tool_args, tool_outcome, tool_ret>>
clientVars == <<resume_text, jd_text, pc, parsed_resume_content, parsed_jd_content,
                match_result, gap_summary, inflight, reply, callLog, invocations, shown,
                abortCause>>
ragVars == <<uploaded_file, temp_pdf, vectorstore, session_state, chat_pc, turn, uploadLog>>
answerVars == <<ans_context, ans_outcome, ans_ret, ans_view>>
vars == <<toolVars, clientVars, ragVars, answerVars>>

(***************************************************************************)
(* Document chat (agentic_rag.py).                                         *)
(***************************************************************************)
\* search_kwargs={"k": 5}
K == 5

None == "None"
DocNames == {"d1", "d2"}
\* the chunks the splitter makes of each document; d2 has more than K
ChunkCount(d) == IF d = "d1" THEN 2 ELSE K + 1
Chunk(d, i) == [doc |-> d, idx |-> i]
PageContent(c) == <<c.doc, DigitChars[c.idx + 1]>>
AllChunks ==
    [i \in 1..ChunkCount("d1") |-> Chunk("d1", i)]
        \o [i \in 1..ChunkCount("d2") |-> Chunk("d2", i)]

\* an index that keeps what it held and adds the new document's chunks
ProcessPdfMerging(pdf_path) ==
    vectorstore \cup {Chunk(pdf_path, i) : i \in 1..ChunkCount(pdf_path)}

\* process_pdf: a new index of the chunks of the file at pdf_path
ProcessPdf(pdf_path) == {Chunk(pdf_path, i) : i \in 1..ChunkCount(pdf_path)}

\* retriever.invoke(query): some K chunks of the index (all of them when it
\* has fewer); which ones, and their order, is the similarity search's choice
RetrieverResults(index, query) ==
    LET n == IF Cardinality(index) < K THEN Cardinality(index) ELSE K
    IN  {SelectSeq(AllChunks, LAMBDA c : c \in S) :
            S \in {T \in SUBSET index : Cardinality(T) = n}}

\* PDFRetrievalAgent.execute_task: the page contents joined by line feeds
RetrievedText(docs) == Join([i \in 1..Len(docs) |-> PageContent(docs[i])], <<NL>>)

\* a context value handed to LLMAgent.execute_task: None, a string, or a
\* value of another type (the signature says dict)
CtxNone == [type |-> "none", text |-> <<>>]
CtxStr(text) == [type |-> "str", text |-> text]
CtxDict == [type |-> "dict", text |-> <<>>]

\* the outcome of llm.call: it raises, or returns the response text
LlmRaises == [raised |-> TRUE, text |-> <<>>]
LlmReturns(text) == [raised |-> FALSE, text |-> text]

NoInformation == <<"No relevant information found in the document.">>
GroundingInstruction ==
    <<"You are an AI assistant that answers ONLY based on the provided document excerpts. ",
      "Do not use external knowledge. If the answer is not found, reply with 'Not found in the document.'",
      NL, NL, "DOCUMENT EXCERPTS:", NL>>
LlmTaskDescription == <<"Analyze and summarize the retrieved text.">>

\* the guard of execute_task without the strip
ContextMissingUnstripped(context) ==
    \/ context.type = "none"
    \/ context.type # "str"
    \/ context.text = <<>>

\* not context or not isinstance(context, str) or len(context.strip()) == 0
ContextMissing(context) ==
    \/ context.type = "none"
    \/ context.type # "str"
    \/ Len(Strip(context.text)) = 0

\* LLMAgent.execute_task: the model calls it makes, whether it raised, and
\* what it returns
ExecuteTask(description, context, outcome) ==
    IF ContextMissing(context)
    THEN [calls |-> <<>>, raised |-> FALSE, result |-> NoInformation]
    ELSE [calls |-> <<[system |-> GroundingInstruction \o context.text,
                       user |-> description]>>,
          raised |-> outcome.raised,
          result |-> outcome.text]

\* re.search(r'<think>(.*?)</think>', text, flags=re.DOTALL): the leftmost
\* <think> that a </think> follows, up to the first </think> after it
ReSearch(text) ==
    LET starts == {i \in 1..Len(text) :
                      text[i] = TO /\ \E j \in (i + 1)..Len(text) : text[j] = TC}
    IN  IF starts = {} THEN [found |-> FALSE, start |-> 0, end |-> 0]
        ELSE LET i == MinOf(starts)
             IN  [found |-> TRUE, start |-> i,
                  end |-> MinOf({j \in (i + 1)..Len(text) : text[j] = TC})]

\* extract_think_content
ExtractThinkContent(text) ==
    LET match == ReSearch(text)
    IN  IF match.found THEN Strip(SubSeq(text, match.start + 1, match.end - 1)) ELSE <<>>

\* re.sub with count=1: only the first marker pair goes
RemoveFirstThinkOnly(text) ==
    LET match == ReSearch(text)
    IN  IF match.found
        THEN SubSeq(text, 1, match.start - 1) \o SubSeq(text, match.end + 1, Len(text))
        ELSE text

RECURSIVE RemoveThinkContent(_)
\* remove_think_content: re.sub replaces every match, resuming the scan
\* after the end of each
RemoveThinkContent(text) ==
    LET match == ReSearch(text)
    IN  IF match.found
        THEN SubSeq(text, 1, match.start - 1)
                \o RemoveThinkContent(SubSeq(text, match.end + 1, Len(text)))
        ELSE text

\* result_content and show_think of the chat turn handler
AnswerView(answer) ==
    [result_content |-> RemoveThinkContent(answer), show_think |-> ExtractThinkContent(answer)]
NoView == [result_content |-> <<"unset">>, show_think |-> <<"unset">>]

Message(role, content) == [role |-> role, content |-> content]

\* session_state with "messages" set to [] on every run
EnsureMessagesAlways(state) == [has_messages |-> TRUE, messages |-> <<>>]

\* if "messages" not in st.session_state: st.session_state["messages"] = []
EnsureMessages(state) ==
    IF state.has_messages THEN state ELSE [has_messages |-> TRUE, messages |-> <<>>]

NoTurn == [prompt |-> <<>>, docs |-> <<>>, context |-> CtxNone, calls |-> <<>>,
           failed |-> FALSE, answer |-> <<>>, view |-> NoView]
NoExec == [calls |-> <<>>, raised |-> FALSE, result |-> <<"unset">>]

Questions == {<<"q1">>, <<"q2">>}
\* what the model answers in a chat turn
TurnAnswers == {<<"a">>, <<TO, "r", TC, "a">>, <<TO, TC, "a", TO, "r", TC>>}
\* documents uploaded in one session
MaxUploads == 2

RagIdle ==
    /\ uploaded_file = None
    /\ temp_pdf = None
    /\ vectorstore = {}
    /\ session_state = [has_messages |-> FALSE, messages |-> <<>>]
    /\ chat_pc = "ready"
    /\ turn = NoTurn
    /\ uploadLog = <<>>

AnswerIdle ==
    /\ ans_context = CtxNone
    /\ ans_outcome = LlmRaises
    /\ ans_ret = NoExec
    /\ ans_view = NoView

otherThanRag == <<toolVars, clientVars, answerVars>>

\* a file is chosen in the uploader: the script runs, writes temp.pdf and
\* builds the index from it
UploadFile ==
    /\ chat_pc = "ready"
    /\ Len(uploadLog) < MaxUploads
    /\ \E d \in DocNames :
        /\ uploaded_file' = d
        /\ temp_pdf' = d
        /\ vectorstore' = ProcessPdf(d)
        /\ uploadLog' = Append(uploadLog, d)
    /\ session_state' = EnsureMessages(session_state)
    /\ turn' = NoTurn
    /\ UNCHANGED <<chat_pc, otherThanRag>>

\* the file is removed from the uploader: the script runs and shows nothing
RemoveFile ==
    /\ chat_pc = "ready"
    /\ uploaded_file # None
    /\ uploaded_file' = None
    /\ turn' = NoTurn
    /\ UNCHANGED <<temp_pdf, vectorstore, session_state, chat_pc, uploadLog, otherThanRag>>

UserTurns == Cardinality({i \in 1..Len(session_state.messages) :
                            session_state.messages[i].role = "user"})

\* a question is entered: the script runs up to the model call of the crew
\* (index rebuilt, user message appended, retrieval done)
SubmitQuestion ==
    /\ chat_pc = "ready"
    /\ uploaded_file # None
    /\ UserTurns < MaxTurns
    /\ temp_pdf' = uploaded_file
    /\ vectorstore' = ProcessPdf(uploaded_file)
    /\ \E prompt \in Questions :
        /\ session_state' =
            [EnsureMessages(session_state) EXCEPT
                !.messages = Append(@, Message("user", prompt))]
        /\ \E docs \in RetrieverResults(vectorstore', prompt) :
            turn' = [NoTurn EXCEPT !.prompt = prompt,
                                   !.docs = docs,
                                   !.context = CtxStr(RetrievedText(docs))]
    /\ chat_pc' = "answering"
    /\ UNCHANGED <<uploaded_file, uploadLog, otherThanRag>>

\* the crew's second task ends: the answer is split and the assistant
\* message appended; or llm.call raised and the script run ends there
AnswerTurn ==
    /\ chat_pc = "answering"
    /\ \E outcome \in {LlmRaises} \cup {LlmReturns(t) : t \in TurnAnswers} :
        LET r == ExecuteTask(LlmTaskDescription, turn.context, outcome)
        IN  IF r.raised
            THEN /\ turn' = [turn EXCEPT !.calls = r.calls, !.failed = TRUE]
                 /\ UNCHANGED session_state
            ELSE /\ turn' = [turn EXCEPT !.calls = r.calls,
                                         !.answer = r.result,
                                         !.view = AnswerView(r.result)]
                 /\ session_state' =
                        [session_state EXCEPT
                            !.messages = Append(@, Message("assistant",
                                                           AnswerView(r.result).result_content))]
    /\ chat_pc' = "ready"
    /\ UNCHANGED <<uploaded_file, temp_pdf, vectorstore, uploadLog, otherThanRag>>

AnswerContexts ==
    {CtxNone, CtxDict} \cup {CtxStr(t) : t \in Texts({" ", NL, "a"}, MaxCtxLen)}
AnswerTexts == Texts({TO, TC, "a", " "}, MaxAnsLen)

RunExecuteTask ==
    /\ ans_ret = NoExec
    /\ ans_ret' = ExecuteTask(LlmTaskDescription, ans_context, ans_outcome)
    /\ UNCHANGED <<ans_context, ans_outcome, ans_view, toolVars, clientVars, ragVars>>

\* the chat turn handler splits the answer it got
SplitAnswer ==
    /\ ans_ret # NoExec
    /\ ~ans_ret.raised
    /\ ans_view = NoView
    /\ ans_view' = AnswerView(ans_ret.result)
    /\ UNCHANGED <<ans_context, ans_outcome, ans_ret, toolVars, clientVars, ragVars>>

(***************************************************************************)
(* Tool Service (mcp_server.py).                                           *)
(***************************************************************************)
Unset == [t |-> "unset", n |-> 0, s |-> <<>>, m |-> <<>>]
Member(k, v) == [k |-> <<k>>, v |-> v]

\* the outcome of one call of the language model: it raises, or returns a
\* result of one of the shapes the tools normalise
Raises == [raised |-> TRUE, shape |-> "none", text |-> <<>>]
Returns(shape, text) == [raised |-> FALSE, shape |-> shape, text |-> text]
ResultShapes == {"str", "message", "list"}
Outcomes(texts) == {Raises} \cup {Returns(sh, t) : sh \in ResultShapes, t \in texts}

\* the filled ChatPromptTemplate of a tool
ToolPrompt(tool, args) == [template |-> tool, fields |-> args]

\* chain.invoke(...) retried once when the model raises
ChainInvokeRetry(prompt, outcome) ==
    [prompts |-> IF outcome.raised THEN <<prompt, prompt>> ELSE <<prompt>>,
     outcome |-> outcome]

\* chain.invoke(...): one call of the model with the prompt
ChainInvoke(prompt, outcome) == [prompts |-> <<prompt>>, outcome |-> outcome]

\* "Handle LangChain output": a non-empty list gives its first element's
\* 'text' (the element is a dict holding the text), a message its content,
\* anything else is left as it is
NormalizeResult(outcome) ==
    IF outcome.shape = "list" THEN outcome.text
    ELSE IF outcome.shape = "message" THEN outcome.text
    ELSE outcome.text

\* match_resume_to_jd that echoes the model output unstripped
MatchResultUnstripped(raw) ==
    LET parsed_output == JsonLoads(Strip(raw))
    IN  IF parsed_output = JError
        THEN JObj(<<Member("match_resume", JStr(raw)),
                    Member("error", JStr(<<"Invalid JSON">>))>>)
        ELSE JObj(<<Member("match_resume", parsed_output)>>)

\* the try/except of match_resume_to_jd on the normalised model output
MatchResult(raw) ==
    LET parsed_output == JsonLoads(Strip(raw))
    IN  IF parsed_output = JError
        THEN JObj(<<Member("match_resume", JStr(Strip(raw))),
                    Member("error", JStr(<<"Invalid JSON">>))>>)
        ELSE JObj(<<Member("match_resume", parsed_output)>>)

\* the dict a tool returns for a model result
ToolResult(tool, outcome) ==
    LET raw == NormalizeResult(outcome)
    IN  CASE tool = "parse_resume" -> JObj(<<Member("parsed_resume", JStr(Strip(raw)))>>)
          [] tool = "parse_jd" -> JObj(<<Member("parsed_jd", JStr(Strip(raw)))>>)
          [] tool = "match_resume_to_jd" -> MatchResult(raw)
          [] tool = "summarize_gap" -> JObj(<<Member("gap_summary", JStr(Strip(raw)))>>)

\* one invocation of a tool: the model calls it made, whether it raised, and
\* the dict it returned
RunTool(tool, args, outcome) ==
    LET inv == ChainInvoke(ToolPrompt(tool, args), outcome)
    IN  [tool |-> tool,
         prompts |-> inv.prompts,
         raised |-> inv.outcome.raised,
         result |-> IF inv.outcome.raised THEN JError ELSE ToolResult(tool, inv.outcome)]

NoRet == [tool |-> "none", prompts |-> <<>>, raised |-> FALSE, result |-> Unset]

ToolNames == {"parse_resume", "parse_jd", "match_resume_to_jd", "summarize_gap"}
ToolAlphabet == {" ", FF, "a", "1", "{", "}", Q}

ParseResumeArgs(text) == JObj(<<Member("resume_text", JStr(text))>>)
ParseJdArgs(text) == JObj(<<Member("jd_text", JStr(text))>>)
PairArgs(r, j) == JObj(<<Member("parsed_resume", r), Member("parsed_jd", j)>>)

ArgsOf(tool) ==
    CASE tool = "parse_resume" -> {ParseResumeArgs(<<"a">>)}
      [] tool = "parse_jd" -> {ParseJdArgs(<<"a">>)}
      [] OTHER -> {PairArgs(JStr(<<"a">>), JStr(<<"1">>))}

ToolsIdle ==
    /\ tool_name = "none"
    /\ tool_args = Unset
    /\ tool_outcome = Raises
    /\ tool_ret = NoRet

ClientIdle ==
    /\ resume_text = <<>>
    /\ jd_text = <<>>
    /\ pc = "idle"
    /\ parsed_resume_content = Unset
    /\ parsed_jd_content = Unset
    /\ match_result = Unset
    /\ gap_summary = Unset
    /\ inflight = {}
    /\ reply = [status |-> "none", text |-> <<>>]
    /\ callLog = <<>>
    /\ invocations = <<>>
    /\ shown = <<>>
    /\ abortCause = "none"

\* a tool is about to be invoked with some arguments and some model outcome
InitTools ==
    /\ tool_name \in ToolNames
    /\ tool_args \in ArgsOf(tool_name)
    /\ tool_outcome \in Outcomes(Texts(ToolAlphabet, MaxOutLen))
    /\ tool_ret = NoRet
    /\ ClientIdle /\ RagIdle /\ AnswerIdle

Invoke(tool) ==
    /\ tool_name = tool
    /\ tool_ret = NoRet
    /\ tool_ret' = RunTool(tool, tool_args, tool_outcome)
    /\ UNCHANGED <<tool_name, tool_args, tool_outcome, clientVars, ragVars, answerVars>>

InvokeParseResume == Invoke("parse_resume")
InvokeParseJd == Invoke("parse_jd")
InvokeMatchResumeToJd == Invoke("match_resume_to_jd")
InvokeSummarizeGap == Invoke("summarize_gap")

NextTools ==
    \/ InvokeParseResume
    \/ InvokeParseJd
    \/ InvokeMatchResumeToJd
    \/ InvokeSummarizeGap

SpecTools == InitTools /\ [][NextTools]_vars
(***************************************************************************)
(* Tool Client (mcp_client_streamlitUI.py).                                *)
(***************************************************************************)
NoText == <<"None">>
\* extract_text_from_pdf: the pages' texts ("" for a page without text),
\* concatenated and stripped
RECURSIVE ConcatPages(_)
ConcatPages(pages) ==
    IF pages = <<>> THEN <<>>
    ELSE (IF Head(pages) = NoText THEN <<>> ELSE Head(pages)) \o ConcatPages(Tail(pages))
ExtractTextFromPdf(pages) == Strip(ConcatPages(pages))

PastedTexts == {<<>>, <<" ">>, <<"a">>, <<" ", "a">>}
PdfFiles == {<<>>, <<NoText>>, <<<<" ">>, <<"a", " ">>>>}

\* what the model returns in a run of the pipeline (OllamaLLM returns a string)
PipeTexts == Texts({" ", "a", "1"}, MaxPipeLen)
PipeOutcomes == {Raises} \cup {Returns("str", t) : t \in PipeTexts}

NoReply == [status |-> "none", text |-> <<>>]
ErrorReply == [status |-> "error", text |-> <<>>]
OkReply(text) == [status |-> "ok", text |-> text]

Call(tool, args) == [tool |-> tool, args |-> args]

\* the input check that forgets to strip
IsBlankUnstripped(text) == text = <<>>

\* not text.strip()
IsBlank(text) == Strip(text) = <<>>

\* the arguments of match_resume_to_jd and summarize_gap, swapped
MatchArgsSwapped(prc, pjc) ==
    PairArgs(GetKey(pjc, <<"parsed_jd">>), GetKey(prc, <<"parsed_resume">>))

\* the arguments of match_resume_to_jd and summarize_gap
MatchArgs(prc, pjc) ==
    PairArgs(GetKey(prc, <<"parsed_resume">>), GetKey(pjc, <<"parsed_jd">>))

\* "Match Result" without the except branch: whatever json.loads gave
MatchDisplayNoFallback(text) ==
    [kind |-> "json", text |-> <<>>, value |-> JsonLoads(text)]

\* "Match Result": the decoded JSON, or the raw text when decoding raises
MatchDisplay(text) ==
    IF JsonLoads(text) = JError
    THEN [kind |-> "markdown", text |-> text, value |-> Unset]
    ELSE [kind |-> "json", text |-> <<>>, value |-> JsonLoads(text)]

\* "Gap Summary": the gap_summary member of the decoded JSON, or an error
\* when decoding (or the .get on a decoded non-object) raises
GapDisplay(text) ==
    LET gap_summary_json == JsonLoads(text)
    IN  IF gap_summary_json.t # "obj"
        THEN [kind |-> "error", text |-> <<"Error parsing gap summary">>, value |-> Unset]
        ELSE IF HasKey(gap_summary_json, <<"gap_summary">>)
        THEN [kind |-> "markdown", text |-> <<>>,
              value |-> GetKey(gap_summary_json, <<"gap_summary">>)]
        ELSE [kind |-> "markdown", text |-> <<"No summary returned.">>, value |-> Unset]

InputError == [kind |-> "error",
               text |-> <<"Please provide both Resume and Job Description content.">>,
               value |-> Unset]

Resting == {"idle", "input_error", "done", "aborted"}

\* a rerun of the script without the button: the run's locals and output go
Rerun ==
    /\ pc' = "idle"
    /\ parsed_resume_content' = Unset
    /\ parsed_jd_content' = Unset
    /\ match_result' = Unset
    /\ gap_summary' = Unset
    /\ callLog' = <<>>
    /\ invocations' = <<>>
    /\ shown' = <<>>
    /\ abortCause' = "none"
    /\ UNCHANGED <<inflight, reply, toolVars, ragVars, answerVars>>

PasteResume ==
    /\ pc \in Resting
    /\ \E t \in PastedTexts : resume_text' = t
    /\ UNCHANGED jd_text
    /\ Rerun

UploadResume ==
    /\ pc \in Resting
    /\ \E f \in PdfFiles : resume_text' = ExtractTextFromPdf(f)
    /\ UNCHANGED jd_text
    /\ Rerun

PasteJd ==
    /\ pc \in Resting
    /\ \E t \in PastedTexts : jd_text' = t
    /\ UNCHANGED resume_text
    /\ Rerun

UploadJd ==
    /\ pc \in Resting
    /\ \E f \in PdfFiles : jd_text' = ExtractTextFromPdf(f)
    /\ UNCHANGED resume_text
    /\ Rerun

\* the button: the input check, then the first remote call
ClickMatch ==
    /\ pc \in Resting
    /\ parsed_resume_content' = Unset
    /\ parsed_jd_content' = Unset
    /\ match_result' = Unset
    /\ gap_summary' = Unset
    /\ invocations' = <<>>
    /\ abortCause' = "none"
    /\ IF IsBlank(resume_text) \/ IsBlank(jd_text)
       THEN /\ pc' = "input_error"
            /\ shown' = <<InputError>>
            /\ callLog' = <<>>
            /\ UNCHANGED inflight
       ELSE LET c == Call("parse_resume", ParseResumeArgs(resume_text))
            IN  /\ pc' = "parse_resume"
                /\ shown' = <<>>
                /\ callLog' = <<c>>
                /\ inflight' = inflight \cup {c}
    /\ UNCHANGED <<resume_text, jd_text, reply, toolVars, ragVars, answerVars>>

\* run_async_tool raised: the script run ends there
CallFails(tool) ==
    /\ pc = tool
    /\ reply = ErrorReply
    /\ pc' = "aborted"
    /\ abortCause' = "remote"
    /\ reply' = NoReply
    /\ inflight' = {}
    /\ UNCHANGED <<resume_text, jd_text, parsed_resume_content, parsed_jd_content,
                   match_result, gap_summary, callLog, invocations, shown, toolVars, ragVars, answerVars>>

RemoteCallFails ==
    \/ CallFails("parse_resume")
    \/ CallFails("parse_jd")
    \/ CallFails("match_resume_to_jd")
    \/ CallFails("summarize_gap")

\* parse_resume returned: decode its first part, call parse_jd
ReturnParseResume ==
    /\ pc = "parse_resume"
    /\ reply.status = "ok"
    /\ reply' = NoReply
    /\ IF JsonLoads(reply.text) = JError
       THEN /\ pc' = "aborted"
            /\ abortCause' = "decode"
            /\ inflight' = {}
            /\ UNCHANGED <<parsed_resume_content, callLog>>
       ELSE LET c == Call("parse_jd", ParseJdArgs(jd_text))
            IN  /\ parsed_resume_content' = JsonLoads(reply.text)
                /\ UNCHANGED abortCause
                /\ pc' = "parse_jd"
                /\ callLog' = Append(callLog, c)
                /\ inflight' = {c}
    /\ UNCHANGED <<resume_text, jd_text, parsed_jd_content, match_result, gap_summary,
                   invocations, shown, toolVars, ragVars, answerVars>>

\* parse_jd returned: decode its first part, look the two parsed values up,
\* call match_resume_to_jd
ReturnParseJd ==
    /\ pc = "parse_jd"
    /\ reply.status = "ok"
    /\ reply' = NoReply
    /\ LET content == JsonLoads(reply.text)
       IN  IF content = JError
           THEN /\ pc' = "aborted"
                /\ abortCause' = "decode"
                /\ inflight' = {}
                /\ UNCHANGED <<parsed_jd_content, callLog>>
           ELSE /\ parsed_jd_content' = content
                /\ IF HasKey(parsed_resume_content, <<"parsed_resume">>)
                      /\ HasKey(content, <<"parsed_jd">>)
                   THEN LET c == Call("match_resume_to_jd",
                                      MatchArgs(parsed_resume_content, content))
                        IN  /\ pc' = "match_resume_to_jd"
                            /\ callLog' = Append(callLog, c)
                            /\ inflight' = {c}
                            /\ UNCHANGED abortCause
                   ELSE /\ pc' = "aborted"
                        /\ abortCause' = "lookup"
                        /\ inflight' = {}
                        /\ UNCHANGED callLog
    /\ UNCHANGED <<resume_text, jd_text, parsed_resume_content, match_result, gap_summary,
                   invocations, shown, toolVars, ragVars, answerVars>>

\* match_resume_to_jd returned: keep its result, call summarize_gap
ReturnMatch ==
    /\ pc = "match_resume_to_jd"
    /\ reply.status = "ok"
    /\ reply' = NoReply
    /\ match_result' = JStr(reply.text)
    /\ LET c == Call("summarize_gap", MatchArgs(parsed_resume_content, parsed_jd_content))
       IN  /\ pc' = "summarize_gap"
           /\ callLog' = Append(callLog, c)
           /\ inflight' = {c}
    /\ UNCHANGED <<resume_text, jd_text, parsed_resume_content, parsed_jd_content,
                   gap_summary, invocations, shown, abortCause, toolVars, ragVars, answerVars>>

\* summarize_gap returned: render the match result and the gap summary
ReturnGap ==
    /\ pc = "summarize_gap"
    /\ reply.status = "ok"
    /\ reply' = NoReply
    /\ gap_summary' = JStr(reply.text)
    /\ inflight' = {}
    /\ shown' = <<MatchDisplay(match_result.s), GapDisplay(reply.text)>>
    /\ pc' = "done"
    /\ UNCHANGED <<resume_text, jd_text, parsed_resume_content, parsed_jd_content,
                   match_result, callLog, invocations, abortCause, toolVars, ragVars, answerVars>>

\* the Tool Service serves a call: the tool runs, its dict travels back as
\* JSON text, an exception as a failed call
ToolService ==
    /\ reply = NoReply
    /\ \E c \in inflight, o \in PipeOutcomes :
        LET r == RunTool(c.tool, c.args, o)
        IN  /\ invocations' = Append(invocations, r)
            /\ reply' = IF r.raised THEN ErrorReply ELSE OkReply(Dumps(r.result))
    /\ UNCHANGED <<resume_text, jd_text, pc, parsed_resume_content, parsed_jd_content,
                   match_result, gap_summary, inflight, callLog, shown, abortCause,
                   toolVars, ragVars, answerVars>>

ResultKey(tool) ==
    CASE tool = "parse_resume" -> "parsed_resume"
      [] tool = "parse_jd" -> "parsed_jd"
      [] tool = "match_resume_to_jd" -> "match_resume"
      [] tool = "summarize_gap" -> "gap_summary"

\* what the first content part of a reply may hold when the service behind
\* MCP_URL is any tool service: the tool's dict as JSON, an object without
\* the member, JSON that is no object, or text that is no JSON
RemoteTexts(tool) ==
    {Dumps(JObj(<<Member(ResultKey(tool), JStr(t))>>)) : t \in PipeTexts}
        \cup {<<"{", "}">>, <<"1">>, <<"a">>}

\* the service at MCP_URL, whatever it is, answers a call
RemoteService ==
    /\ reply = NoReply
    /\ \E c \in inflight :
        \E r \in {ErrorReply} \cup {OkReply(t) : t \in RemoteTexts(c.tool)} : reply' = r
    /\ UNCHANGED <<resume_text, jd_text, pc, parsed_resume_content, parsed_jd_content,
                   match_result, gap_summary, inflight, callLog, invocations, shown,
                   abortCause, toolVars, ragVars, answerVars>>

InitMatcher == ToolsIdle /\ ClientIdle /\ RagIdle /\ AnswerIdle

ClientNext ==
    \/ PasteResume
    \/ UploadResume
    \/ PasteJd
    \/ UploadJd
    \/ ClickMatch
    \/ RemoteCallFails
    \/ ReturnParseResume
    \/ ReturnParseJd
    \/ ReturnMatch
    \/ ReturnGap

NextMatcher == ClientNext \/ ToolService

\* the Tool Client with the Tool Service of this repository
SpecMatcher == InitMatcher /\ [][NextMatcher]_vars

NextClient == ClientNext \/ RemoteService

\* the Tool Client with whatever tool service MCP_URL addresses
SpecClient == InitMatcher /\ [][NextClient]_vars
(***************************************************************************)
(* The document chat and the Answering Step as specifications.             *)
(***************************************************************************)
InitRag == ToolsIdle /\ ClientIdle /\ RagIdle /\ AnswerIdle

NextRag ==
    \/ UploadFile
    \/ RemoveFile
    \/ SubmitQuestion
    \/ AnswerTurn

\* the document chat in one browser session
SpecRag == InitRag /\ [][NextRag]_vars

\* the Answering Step is about to run on some context with some model outcome
InitAnswering ==
    /\ ans_context \in AnswerContexts
    /\ ans_outcome \in {LlmRaises} \cup {LlmReturns(t) : t \in AnswerTexts}
    /\ ans_ret = NoExec
    /\ ans_view = NoView
    /\ ToolsIdle /\ ClientIdle /\ RagIdle


NextAnswering == RunExecuteTask \/ SplitAnswer

\* LLMAgent.execute_task and the split of its answer, on their own
SpecAnswering == InitAnswering /\ [][NextAnswering]_vars

(***************************************************************************)
(* Claims about the document chat.                                         *)
(***************************************************************************)
WhitespaceOnly(text) == \A i \in 1..Len(text) : text[i] \in PyWhitespace

\* the first <think> that a </think> follows, and the first </think> after it
PairOpens(text) ==
    {i \in 1..Len(text) : text[i] = TO /\ \E j \in (i + 1)..Len(text) : text[j] = TC}
FirstOpen(text) == MinOf(PairOpens(text))
FirstClose(text) == MinOf({j \in (FirstOpen(text) + 1)..Len(text) : text[j] = TC})
FirstPairContent(text) == SubSeq(text, FirstOpen(text) + 1, FirstClose(text) - 1)
CutFirstPair(text) ==
    SubSeq(text, 1, FirstOpen(text) - 1) \o SubSeq(text, FirstClose(text) + 1, Len(text))
RECURSIVE CutEveryPair(_)
\* cut the first pair again and again until none is left
CutEveryPair(text) ==
    IF PairOpens(text) = {} THEN text ELSE CutEveryPair(CutFirstPair(text))

\* C3: on a string context that is empty or whitespace-only, execute_task
\* returns the fixed "no information found" message and makes no model call;
\* on any other string context it makes exactly one model call.
C3_BlankContextNoModelCall ==
    (ans_ret # NoExec /\ ans_context.type = "str")
        => IF WhitespaceOnly(ans_context.text)
           THEN /\ ans_ret.calls = <<>>
                /\ ans_ret.result = NoInformation
                /\ ~ans_ret.raised
           ELSE Len(ans_ret.calls) = 1

C3_Witness ==
    /\ ans_ret # NoExec
    /\ ans_context = CtxStr(<<" ", NL>>)
    /\ ans_outcome.text # <<>>
    /\ ans_ret.calls = <<>>

\* C5 as stated: the reasoning is the content of the first marker pair and
\* the visible answer is the raw response without that one segment; with no
\* pair the reasoning is empty and the visible answer is the raw response.
C5_FirstPairOnly ==
    ans_view # NoView
        => IF PairOpens(ans_ret.result) = {}
           THEN /\ ans_view.show_think = <<>>
                /\ ans_view.result_content = ans_ret.result
           ELSE /\ ans_view.show_think = FirstPairContent(ans_ret.result)
                /\ ans_view.result_content = CutFirstPair(ans_ret.result)

\* C5 (amended): the reasoning is the content of the first (non-greedy)
\* marker pair with its leading and trailing whitespace stripped, and the
\* visible answer is the raw response with every marker pair removed, not
\* only the first; with no pair the reasoning is empty and the visible
\* answer is the raw response unchanged.
C5_StrippedAndEveryPair ==
    ans_view # NoView
        => IF PairOpens(ans_ret.result) = {}
           THEN /\ ans_view.show_think = <<>>
                /\ ans_view.result_content = ans_ret.result
           ELSE /\ ans_view.show_think = Strip(FirstPairContent(ans_ret.result))
                /\ ans_view.result_content = CutEveryPair(ans_ret.result)

C5_Witness ==
    /\ ans_view # NoView
    /\ ans_ret.result = <<TO, "a", TC, "a">>
    /\ ans_view.show_think = <<"a">>
    /\ ans_view.result_content = <<"a">>

\* C6: in a chat turn with non-empty retrieved context the Answering Step
\* makes one model call whose system message is the grounding instruction
\* followed by the retrieved context and whose user message is the question
\* of the turn, and the answer of the turn is the model's response.
C6_ModelCallCarriesQuestion ==
    (chat_pc = "ready" /\ turn.prompt # <<>> /\ ~WhitespaceOnly(turn.context.text))
        => /\ Len(turn.calls) = 1
           /\ turn.calls[1].system = GroundingInstruction \o RetrievedText(turn.docs)
           /\ turn.calls[1].user = turn.prompt
           /\ ~turn.failed => turn.answer \in TurnAnswers

\* C7: the chunks retrieved for a question all belong to the document
\* uploaded last, and so does every chunk of the index: an upload replaces
\* the index, whatever was uploaded and asked before.
C7_RetrievalFromLatestUpload ==
    /\ \A i \in 1..Len(turn.docs) :
        /\ uploadLog # <<>>
        /\ turn.docs[i].doc = uploadLog[Len(uploadLog)]
        /\ turn.docs[i] \in vectorstore
    /\ uploadLog # <<>> => vectorstore = {c \in {AllChunks[j] : j \in 1..Len(AllChunks)} :
                                        c.doc = uploadLog[Len(uploadLog)]}
    /\ Len(turn.docs) <= K

C7_Witness ==
    /\ Len(uploadLog) = 2
    /\ uploadLog[1] = "d1"
    /\ uploadLog[2] = "d2"
    /\ Len(turn.docs) = K
    /\ \E i \in 1..Len(session_state.messages) :
        session_state.messages[i].role = "assistant"

\* C8 as stated: each user turn appends the user message and then one
\* assistant message, so the transcript alternates user, assistant, user,
\* assistant, ... and ends with an assistant message whenever no turn is
\* being handled.
C8_AlternatingTranscript ==
    LET msgs == session_state.messages
    IN  /\ \A i \in 1..Len(msgs) :
            msgs[i].role = IF i % 2 = 1 THEN "user" ELSE "assistant"
        /\ chat_pc = "ready" => Len(msgs) % 2 = 0

TranscriptStep ==
    LET old == session_state.messages
        new == session_state'.messages
    IN  /\ Len(new) >= Len(old)
        /\ SubSeq(new, 1, Len(old)) = old
        /\ (chat_pc = "ready" /\ chat_pc' = "answering")
            => new = Append(old, Message("user", turn'.prompt))
        /\ (chat_pc = "answering" /\ chat_pc' = "ready")
            => IF turn'.failed
               THEN new = old
               ELSE new = Append(old, Message("assistant", CutEveryPair(turn'.answer)))
        /\ chat_pc' = chat_pc => new = old
        /\ \A i \in 1..Len(new) :
            new[i].role = "assistant" => i > 1 /\ new[i - 1].role = "user"

\* C8 (amended): the transcript is append-only: every step keeps the
\* messages it had, in place and unchanged.  A question appends the user
\* message; the end of its turn appends one assistant message holding the
\* visible answer only, or nothing when the model call raised; so every
\* assistant message directly follows the user message of its turn, while
\* the user message of a failed turn is followed by the next user message.
C8_AppendOnlyTranscript == [][TranscriptStep]_vars

C8_Witness ==
    /\ Len(session_state.messages) = 3
    /\ session_state.messages[1].role = "user"
    /\ session_state.messages[2].role = "user"
    /\ session_state.messages[3] = Message("assistant", <<"a">>)
    /\ chat_pc = "ready"

(***************************************************************************)
(* Claims about the resume matcher.                                        *)
(***************************************************************************)
StepOrder == <<"parse_resume", "parse_jd", "match_resume_to_jd", "summarize_gap">>
ReturnedBy(i) == GetKey(invocations[i].result, <<ResultKey(StepOrder[i])>>)

\* C1: in a run started by the button with both inputs non-blank, the calls
\* issued so far are parse_resume, parse_jd, match_resume_to_jd,
\* summarize_gap in that order (all four once the run is done); only the
\* latest call can be awaiting its return, so at most one call is in flight
\* and the tools are served in the same order; and match_resume_to_jd and
\* summarize_gap are given exactly the parsed_resume and parsed_jd values
\* that the first two tool invocations returned.
C1_SequentialCalls ==
    /\ Len(callLog) <= 4
    /\ \A i \in 1..Len(callLog) : callLog[i].tool = StepOrder[i]
    /\ pc \in {"parse_resume", "parse_jd", "match_resume_to_jd", "summarize_gap", "done"}
        => /\ Len(callLog) >= 1
           /\ callLog[1] = Call("parse_resume", ParseResumeArgs(resume_text))
    /\ Len(callLog) >= 2 => callLog[2] = Call("parse_jd", ParseJdArgs(jd_text))
    /\ pc = "done" => Len(callLog) = 4 /\ Len(invocations) = 4
    /\ Cardinality(inflight) <= 1
    /\ \A c \in inflight : callLog # <<>> /\ c = callLog[Len(callLog)]
    /\ Len(invocations) <= Len(callLog)
    /\ Len(callLog) <= Len(invocations) + 1
    /\ \A i \in 1..Len(invocations) : invocations[i].tool = StepOrder[i]
    /\ \A i \in 1..Len(invocations) : invocations[i].prompts[1].fields = callLog[i].args
    /\ \A i \in 3..Len(callLog) :
        callLog[i].args = PairArgs(ReturnedBy(1), ReturnedBy(2))

C1_Witness ==
    /\ pc = "done"
    /\ Len(callLog) = 4
    /\ ReturnedBy(1) = JStr(<<"a">>)
    /\ ReturnedBy(2) = JStr(<<"1">>)

\* C2: when the button is clicked with the resume text or the job
\* description text empty or whitespace-only, the run shows the input error
\* and issues no remote call: no call is logged, none is in flight and no
\* tool is invoked.
C2_BlankInputNoCalls ==
    /\ (pc # "idle" /\ (WhitespaceOnly(resume_text) \/ WhitespaceOnly(jd_text)))
        => /\ pc = "input_error"
           /\ shown = <<InputError>>
           /\ callLog = <<>>
           /\ inflight = {}
           /\ invocations = <<>>
    /\ pc = "input_error" => (WhitespaceOnly(resume_text) \/ WhitespaceOnly(jd_text))

C2_Witness ==
    /\ pc = "input_error"
    /\ resume_text = <<"a">>
    /\ jd_text = <<" ">>

\* C10: every tool invocation makes exactly one model call (no retry); a
\* model exception makes the invocation fail, the failure reaches the client
\* as a failed call, and the run then ends without issuing a later call.
C10_NoRetryAndAbort ==
    /\ \A i \in 1..Len(invocations) :
        /\ Len(invocations[i].prompts) = 1
        /\ invocations[i].raised
            => /\ i = Len(invocations)
               /\ Len(callLog) = i
               /\ \/ pc = StepOrder[i] /\ reply = ErrorReply
                  \/ pc = "aborted" /\ abortCause = "remote" /\ reply = NoReply
    /\ pc = "aborted" => inflight = {} /\ shown = <<>>
    /\ reply = ErrorReply
        => invocations # <<>> /\ invocations[Len(invocations)].raised

C10_Witness ==
    /\ pc = "aborted"
    /\ Len(invocations) = 2
    /\ invocations[2].raised
    /\ Len(callLog) = 2

\* C4 as stated: for model output that is not valid JSON text the result of
\* match_resume_to_jd holds that raw text under match_resume with the error
\* marker "Invalid JSON"; for output that is valid JSON it holds the decoded
\* value and no error member; and the tool does not raise.
C4_RawTextEchoed ==
    (tool_name = "match_resume_to_jd" /\ tool_ret # NoRet /\ ~tool_outcome.raised)
        => /\ ~tool_ret.raised
           /\ tool_ret.result =
                IF JsonLoads(tool_outcome.text) = JError
                THEN JObj(<<Member("match_resume", JStr(tool_outcome.text)),
                            Member("error", JStr(<<"Invalid JSON">>))>>)
                ELSE JObj(<<Member("match_resume", JsonLoads(tool_outcome.text))>>)

\* C4 (amended): match_resume_to_jd decides on, and echoes, the model output
\* with its leading and trailing whitespace stripped: when the stripped text
\* does not decode as JSON the result holds the stripped text under
\* match_resume with the error marker "Invalid JSON"; when it decodes, the
\* result holds the decoded value and no error member; the tool does not
\* raise in either case.
C4_StrippedTextEchoed ==
    (tool_name = "match_resume_to_jd" /\ tool_ret # NoRet /\ ~tool_outcome.raised)
        => /\ ~tool_ret.raised
           /\ Len(tool_ret.prompts) = 1
           /\ tool_ret.result =
                IF JsonLoads(Strip(tool_outcome.text)) = JError
                THEN JObj(<<Member("match_resume", JStr(Strip(tool_outcome.text))),
                            Member("error", JStr(<<"Invalid JSON">>))>>)
                ELSE JObj(<<Member("match_resume", JsonLoads(Strip(tool_outcome.text)))>>)

C4_Witness ==
    /\ tool_name = "match_resume_to_jd"
    /\ tool_ret # NoRet
    /\ tool_outcome = Returns("str", <<" ", "a", " ">>)
    /\ HasKey(tool_ret.result, <<"error">>)

\* C9 as stated: a reply whose first part does not decode as JSON never
\* aborts the run; the match step then shows the raw text and the
\* gap-summary step an error message.
C9_DecodeFailureNeverAborts ==
    /\ abortCause # "decode"
    /\ pc = "done" =>
        /\ JsonLoads(match_result.s) = JError
            => shown[1] = [kind |-> "markdown", text |-> match_result.s, value |-> Unset]
        /\ JsonLoads(gap_summary.s) = JError => shown[2].kind = "error"

\* C9 (amended): the client decodes the first part of every reply as JSON.
\* At the match step a decoding failure shows the raw text (a decoded value
\* is shown as JSON) and at the gap-summary step it shows an error message,
\* and the run completes; at the parse_resume and parse_jd steps a decoding
\* failure ends the run: nothing is rendered and no later call is issued.
C9_DecodeFallbacks ==
    /\ pc = "done" =>
        /\ Len(shown) = 2
        /\ shown[1] = IF JsonLoads(match_result.s) = JError
                      THEN [kind |-> "markdown", text |-> match_result.s, value |-> Unset]
                      ELSE [kind |-> "json", text |-> <<>>,
                            value |-> JsonLoads(match_result.s)]
        /\ JsonLoads(gap_summary.s) = JError => shown[2].kind = "error"
        /\ shown[2].kind \in {"error", "markdown"}
    /\ abortCause = "decode" =>
        /\ pc = "aborted"
        /\ Len(callLog) \in {1, 2}
        /\ match_result = Unset
        /\ shown = <<>>
        /\ inflight = {}
    /\ pc \in {"parse_jd", "match_resume_to_jd", "summarize_gap", "done"}
        => parsed_resume_content # JError /\ parsed_resume_content # Unset
    /\ pc \in {"match_resume_to_jd", "summarize_gap", "done"}
        => parsed_jd_content # JError /\ parsed_jd_content # Unset

C9_Witness ==
    /\ pc = "done"
    /\ JsonLoads(match_result.s) = JError
    /\ JsonLoads(gap_summary.s) = JError
    /\ shown[1].kind = "markdown"
    /\ shown[2].kind = "error"
====
